---- MODULE Spec2Model ----
(***************************************************************************)
(* Model of NodeEventEmitter (src/src/index.ts): the listener registry     *)
(* _event_listeners, a plain object from event key to an array of          *)
(* [listener, callback] pairs, and the operations on it.                   *)
(*                                                                         *)
(* emit is re-entrant: the callbacks it invokes are caller code that may   *)
(* call any operation of the emitter before returning or throwing.  The    *)
(* model keeps the stack of emit calls in progress; each frame holds the   *)
(* array object its for-of loop iterates, the iterator's index, and        *)
(* whether that array is still the object stored in the registry (push     *)
(* mutates that object in place, filter and delete replace it).  A frame   *)
(* also records what it observed: the sequence it began with (snap), the   *)
(* invocations it made (called) and the once wrappers that emits nested    *)
(* in it fired for its event (inner).                                      *)
(***************************************************************************)
EXTENDS Integers, Sequences, FiniteSets, TLC

\* ---- bounds ----
\* entries the registry holds at a time, over all event keys
MaxEntries == 2
\* emit calls in progress at a time (emit called from a listener of an emit)
MaxDepth == 2
\* calls the listener bodies make to the emitter within one outermost emit
MaxBodyOps == 2

\* ---- the values the operations are called with ----
Sym == "Symbol(s)"
StringKeys == {"login", "", "constructor"}
SymbolKeys == {Sym}
Keys == StringKeys \cup SymbolKeys
\* the argument of removeAllListeners() called without one
Undefined == "<undefined>"
\* properties a plain object inherits from Object.prototype
ProtoKeys == {"constructor"}
\* Object.length, what _event_listeners['constructor'].length reads
ProtoLength == 1
Listeners == {"f", "g"}
Args == {"alice", "bob"}

VARIABLES event_listeners, stack, ret, bodyOps

vars == <<event_listeners, stack, ret, bodyOps>>

\* a [listener, callback] pair: callback is listener itself (on) or the
\* self-removing wrapper around it (once)
Entry(l, o) == [l |-> l, once |-> o]

\* what this._event_listeners[event] evaluates to
Get(r, e) ==
  IF e \in DOMAIN r THEN "array"
  ELSE IF e \in ProtoKeys THEN "function"
  ELSE "undefined"

\* JavaScript truthiness of an event argument: undefined and '' are falsy
Falsy(e) == e = Undefined \/ e = ""

Top == stack[Len(stack)]

\* the caller is outside every emit, or is a listener body that is running
CanCall ==
  IF Len(stack) = 0 THEN TRUE ELSE Top.pc = "body" /\ bodyOps < MaxBodyOps

\* the calls made by listener bodies since the outermost emit began
Counted == IF Len(stack) = 0 THEN 0 ELSE bodyOps + 1

\* the stack once its top frame is gone
Popped == SubSeq(stack, 1, Len(stack) - 1)
Settled == IF Len(stack) = 1 THEN 0 ELSE bodyOps

\* the frames whose iterated array is the registry's array of e see a push
PushAliased(st, e, en) ==
  [i \in DOMAIN st |->
     IF st[i].event = e /\ st[i].same
       THEN [st[i] EXCEPT !.arr = Append(@, en)]
       ELSE st[i]]

\* mutant of Unalias: the old array is emptied in place (length = 0)
UnaliasCleared(st, es) ==
  [i \in DOMAIN st |->
     IF st[i].event \in es
       THEN [st[i] EXCEPT !.same = FALSE, !.arr = <<>>]
       ELSE st[i]]

\* the registry's array of e was replaced or deleted
Unalias(st, es) ==
  [i \in DOMAIN st |->
     IF st[i].event \in es THEN [st[i] EXCEPT !.same = FALSE] ELSE st[i]]

\* if (!this._event_listeners[event]) this._event_listeners[event] = [];
Ensure(r, e) ==
  IF Get(r, e) = "undefined"
    THEN [k \in DOMAIN r \cup {e} |-> IF k = e THEN <<>> ELSE r[k]]
    ELSE r

\* the number of entries the registry holds
RECURSIVE Total(_, _)
Total(r, ks) ==
  IF ks = {} THEN 0
  ELSE LET k == CHOOSE x \in ks : TRUE IN Len(r[k]) + Total(r, ks \ {k})

\* this._event_listeners[event].push(en), with the line before it
Register(e, en) ==
  LET r1 == Ensure(event_listeners, e) IN
    IF Get(r1, e) = "array"
      THEN /\ Total(event_listeners, DOMAIN event_listeners) < MaxEntries
           /\ event_listeners' = [r1 EXCEPT ![e] = Append(@, en)]
           /\ stack' = PushAliased(stack, e, en)
           /\ ret' = "this"
      ELSE \* Object.push is undefined
           /\ ret' = "TypeError: push is not a function"
           /\ UNCHANGED <<event_listeners, stack>>

on(e, l) ==
  /\ CanCall
  /\ Register(e, Entry(l, FALSE))
  /\ bodyOps' = Counted

once(e, l) ==
  /\ CanCall
  /\ Register(e, Entry(l, TRUE))
  /\ bodyOps' = Counted

\* mutants of Filter: only the first match goes; the callback is compared
RECURSIVE FilterFirst(_, _)
FilterFirst(s, l) ==
  IF s = <<>> THEN <<>>
  ELSE IF Head(s).l = l THEN Tail(s)
  ELSE <<Head(s)>> \o FilterFirst(Tail(s), l)

FilterByCallback(s, l) == SelectSeq(s, LAMBDA en : en.l # l \/ en.once)

\* .filter(([l]) => l !== listener)
Filter(s, l) == SelectSeq(s, LAMBDA en : en.l # l)

\* mutant of OffReg: the filtered array is not stored
OffRegDropped(r, e, l) == r

\* the registry after off(e, l) returned
OffReg(r, e, l) ==
  IF Get(r, e) = "array" THEN [r EXCEPT ![e] = Filter(@, l)] ELSE r

OffStack(r, st, e) ==
  IF Get(r, e) = "array" THEN Unalias(st, {e}) ELSE st

off(e, l) ==
  /\ CanCall
  /\ IF Get(event_listeners, e) = "function"
       THEN \* Object.filter is undefined
            /\ ret' = "TypeError: filter is not a function"
            /\ UNCHANGED <<event_listeners, stack>>
       ELSE /\ event_listeners' = OffReg(event_listeners, e, l)
            /\ stack' = OffStack(event_listeners, stack, e)
            /\ ret' = "this"
  /\ bodyOps' = Counted

removeListener(e, l) ==
  /\ off(e, l)

removeAllListeners(e) ==
  /\ CanCall
  /\ IF Falsy(e)
       THEN /\ event_listeners' = [k \in {} |-> <<>>]
            /\ stack' = Unalias(stack, Keys)
       ELSE /\ event_listeners' =
                 [k \in DOMAIN event_listeners \ {e} |-> event_listeners[k]]
            /\ stack' = Unalias(stack, {e})
  /\ ret' = "this"
  /\ bodyOps' = Counted

\* mutant of Iterated: the loop re-reads the registry at each step
IteratedLive(fr) ==
  IF fr.event \in DOMAIN event_listeners
    THEN event_listeners[fr.event] ELSE <<>>

\* the array the for-of iterator of a frame reads at each step
Iterated(fr) == fr.arr

\* emit(e, a) up to its first callback
emit(e, a) ==
  /\ CanCall
  /\ Len(stack) < MaxDepth
  /\ CASE Get(event_listeners, e) = "undefined" ->
            /\ ret' = "false"
            /\ UNCHANGED stack
       [] Get(event_listeners, e) = "function" ->
            \* for-of over Object
            /\ ret' = "TypeError: not iterable"
            /\ UNCHANGED stack
       [] Get(event_listeners, e) = "array" ->
            /\ stack' = Append(stack,
                 [event |-> e, args |-> a, arr |-> event_listeners[e],
                  idx |-> 0, same |-> TRUE, pc |-> "loop",
                  snap |-> event_listeners[e], called |-> <<>>,
                  inner |-> {}])
            /\ ret' = "-"
  /\ bodyOps' = Counted
  /\ UNCHANGED event_listeners

\* the frames below the top one record that an emit nested in them fired
\* the once wrapper of l for their own event
FiredInside(st, e, l) ==
  [i \in DOMAIN st |->
     IF i < Len(st) /\ st[i].event = e
       THEN [st[i] EXCEPT !.inner = @ \cup {l}]
       ELSE st[i]]

\* one step of the for-of loop: callback(...args) is entered.  The wrapper
\* of a once entry runs this.removeListener(event, listener) before it
\* forwards to the listener.
emitCall ==
  /\ Len(stack) > 0
  /\ Top.pc = "loop"
  /\ Top.idx < Len(Iterated(Top))
  /\ LET fr == Top
         en == Iterated(fr)[fr.idx + 1]
         r1 == IF en.once THEN OffReg(event_listeners, fr.event, en.l)
                          ELSE event_listeners
         s1 == IF en.once
                 THEN FiredInside(OffStack(event_listeners, stack, fr.event),
                                  fr.event, en.l)
                 ELSE stack
     IN /\ event_listeners' = r1
        /\ stack' = [s1 EXCEPT ![Len(stack)] =
             [@ EXCEPT !.idx = fr.idx + 1, !.pc = "body",
                       !.called = Append(@, [l |-> en.l, once |-> en.once,
                                             args |-> fr.args])]]
        /\ ret' = "-"
  /\ UNCHANGED bodyOps

\* the listener body returns to the loop
listenerReturn ==
  /\ Len(stack) > 0
  /\ Top.pc = "body"
  /\ stack' = [stack EXCEPT ![Len(stack)].pc = "loop"]
  /\ ret' = "-"
  /\ UNCHANGED <<event_listeners, bodyOps>>

\* mutant of listenerThrow: emit catches the exception and goes on
listenerThrowSwallowed ==
  /\ Len(stack) > 0
  /\ Top.pc = "body"
  /\ stack' = [stack EXCEPT ![Len(stack)].pc = "loop"]
  /\ ret' = "-"
  /\ UNCHANGED <<event_listeners, bodyOps>>

\* the listener body throws: nothing in emit catches it
listenerThrow ==
  /\ Len(stack) > 0
  /\ Top.pc = "body"
  /\ stack' = Popped
  /\ ret' = "throw"
  /\ bodyOps' = Settled
  /\ UNCHANGED event_listeners

\* the iterator is exhausted: return true
emitReturn ==
  /\ Len(stack) > 0
  /\ Top.pc = "loop"
  /\ Top.idx >= Len(Iterated(Top))
  /\ stack' = Popped
  /\ ret' = "true"
  /\ bodyOps' = Settled
  /\ UNCHANGED event_listeners

\* ---- the queries ----
Value(v) == [throws |-> FALSE, value |-> v]
TypeError == [throws |-> TRUE, value |-> <<>>]

Originals(s) == [i \in DOMAIN s |-> s[i].l]

listeners(e) ==
  CASE Get(event_listeners, e) = "undefined" -> Value(<<>>)
    [] Get(event_listeners, e) = "function" -> TypeError
    [] Get(event_listeners, e) = "array" -> Value(Originals(event_listeners[e]))

rawListeners(e) ==
  CASE Get(event_listeners, e) = "undefined" -> Value(<<>>)
    [] Get(event_listeners, e) = "function" -> TypeError
    [] Get(event_listeners, e) = "array" -> Value(Originals(event_listeners[e]))

listenerCount(e) ==
  CASE Get(event_listeners, e) = "undefined" -> 0
    [] Get(event_listeners, e) = "function" -> ProtoLength
    [] Get(event_listeners, e) = "array" -> Len(event_listeners[e])

\* mutant of eventNames: keys whose sequence became empty are left out
eventNamesNonEmpty ==
  {k \in DOMAIN event_listeners \cap StringKeys : event_listeners[k] # <<>>}

\* Object.keys: the own enumerable string-keyed properties
eventNames == DOMAIN event_listeners \cap StringKeys

\* ---- the specification ----
Init ==
  /\ event_listeners = [k \in {} |-> <<>>]
  /\ stack = <<>>
  /\ ret = "-"
  /\ bodyOps = 0

Next ==
  \/ \E e \in Keys, l \in Listeners : on(e, l)
  \/ \E e \in Keys, l \in Listeners : once(e, l)
  \/ \E e \in Keys, l \in Listeners : off(e, l)
  \/ \E e \in Keys, l \in Listeners : removeListener(e, l)
  \/ \E e \in Keys \cup {Undefined} : removeAllListeners(e)
  \/ \E e \in Keys, a \in Args : emit(e, a)
  \/ emitCall
  \/ listenerReturn
  \/ listenerThrow
  \/ emitReturn

Spec == Init /\ [][Next]_vars

\* ---- helpers of the properties ----
Invocation(en, a) == [l |-> en.l, once |-> en.once, args |-> a]

RemoveAt(s, i) == SubSeq(s, 1, i - 1) \o SubSeq(s, i + 1, Len(s))

RECURSIVE Without(_, _)
Without(s, l) ==
  IF s = <<>> THEN <<>>
  ELSE IF Head(s).l = l THEN Without(Tail(s), l)
  ELSE <<Head(s)>> \o Without(Tail(s), l)

HandlersOf(s) == {s[i].l : i \in DOMAIN s}

OthersUnchanged(e) ==
  \A k \in DOMAIN event_listeners \ {e} :
    k \in DOMAIN event_listeners' /\ event_listeners'[k] = event_listeners[k]

\* C1: when emit(E, args) returns, it returns true and it has invoked the
\* invocation target of every entry that E's sequence held when the emit
\* began, each once, in insertion order, each with args.
C1_EmitInvokesEveryEntryInOrder ==
  [][emitReturn =>
       LET fr == Top IN
         /\ ret' = "true"
         /\ Len(fr.called) >= Len(fr.snap)
         /\ \A i \in 1..Len(fr.snap) :
              fr.called[i] = Invocation(fr.snap[i], fr.args)]_vars

\* an emit over two different listeners has invoked both and is about to
\* return
C1_Witness ==
  /\ Len(stack) = 1
  /\ Top.pc = "loop"
  /\ Top.event = "login"
  /\ Top.snap = <<Entry("f", FALSE), Entry("g", TRUE)>>
  /\ Top.idx = 2
  /\ Top.args = "alice"

\* C2: an emit never invokes a listener that was added while it was running:
\* it invokes no more than the entries its sequence held when it began.
C2_AddedListenerNotInvokedInSameEmit ==
  \A i \in DOMAIN stack : Len(stack[i].called) <= Len(stack[i].snap)

\* C3: the wrapper of a once entry, fired by an emit that iterates the
\* registry's own array, removes the entry at its own position and nothing
\* else.
C3_WrapperRemovesOnlyItsOwnEntry ==
  [][(emitCall /\ Top.same /\ Top.arr[Top.idx + 1].once) =>
       /\ Top.event \in DOMAIN event_listeners'
       /\ event_listeners'[Top.event] =
            RemoveAt(event_listeners[Top.event], Top.idx + 1)]_vars

\* C4: an outermost emit(E) whose listeners call nothing: if E held only a
\* once(E, f) entry, f was invoked exactly once and E's sequence is empty
\* when the emit returns; if E's sequence was empty (the second emit),
\* nothing was invoked.
C4_OnceThenTwoEmits ==
  [][(emitReturn /\ Len(stack) = 1 /\ bodyOps = 0) =>
       LET fr == Top IN
         /\ \A l \in Listeners :
              fr.snap = <<Entry(l, TRUE)>> =>
                /\ fr.called = <<Invocation(Entry(l, TRUE), fr.args)>>
                /\ fr.event \in DOMAIN event_listeners'
                /\ event_listeners'[fr.event] = <<>>
         /\ fr.snap = <<>> =>
              /\ fr.called = <<>>
              /\ event_listeners'[fr.event] = <<>>]_vars

\* the first emit after once(E, f) has invoked f and is about to return
C4_Witness ==
  /\ Len(stack) = 1
  /\ bodyOps = 0
  /\ Top.pc = "loop"
  /\ Top.snap = <<Entry("f", TRUE)>>
  /\ Top.idx = 1
  /\ Top.called = <<Invocation(Entry("f", TRUE), Top.args)>>
  /\ listenerCount(Top.event) = 0

\* C5: for every event key that holds no sequence (every key never
\* registered is one), emit returns false and changes nothing, and
\* listenerCount is 0 and listeners is empty.
C5_UnregisteredKey ==
  [][\A e \in Keys \ DOMAIN event_listeners, a \in Args :
       emit(e, a) =>
         /\ ret' = "false"
         /\ UNCHANGED <<event_listeners, stack>>
         /\ listenerCount(e) = 0
         /\ listeners(e) = Value(<<>>)]_vars

C7_OffCancelsPendingOnce ==
  [][\A e \in Keys, l \in Listeners :
       /\ (/\ e \in DOMAIN event_listeners
           /\ off(e, l)
           /\ Entry(l, TRUE) \in {event_listeners[e][i] :
                                    i \in DOMAIN event_listeners[e]}) =>
            /\ l \notin HandlersOf(event_listeners'[e])
            /\ \A i \in DOMAIN listeners(e)'.value : listeners(e)'.value[i] # l
       /\ \A a \in Args :
            (/\ e \in DOMAIN event_listeners
             /\ l \notin HandlersOf(event_listeners[e])
             /\ Len(stack') > Len(stack)
             /\ emit(e, a)) =>
              l \notin HandlersOf(Iterated(stack'[Len(stack')]))]_vars

\* a listener g registered once(E, f) during an emit and then called
\* off(E, f): the wrapper has not fired, the registry holds no f
C7_Witness ==
  /\ Len(stack) = 1
  /\ bodyOps = 2
  /\ Top.idx = 1
  /\ Top.pc = "body"
  /\ Top.snap = <<Entry("g", FALSE)>>
  /\ Top.arr = <<Entry("g", FALSE), Entry("f", TRUE)>>
  /\ Top.event \in DOMAIN event_listeners
  /\ listeners(Top.event) = Value(<<"g">>)

\* C8: removeAllListeners(E) with an event key E leaves the sequence of
\* every other event key as it was.
C8_RemoveAllOfEventKeepsOthers ==
  [][\A e \in Keys : removeAllListeners(e) => OthersUnchanged(e)]_vars

\* C9: on(E, f) appends exactly one entry (f, f) at the end of E's
\* sequence, creating the sequence if absent, and changes nothing else.
C9_OnAppendsOneEntry ==
  [][\A e \in Keys, l \in Listeners :
       on(e, l) =>
         /\ e \in DOMAIN event_listeners'
         /\ event_listeners'[e] =
              Append(IF e \in DOMAIN event_listeners
                       THEN event_listeners[e] ELSE <<>>,
                     Entry(l, FALSE))
         /\ DOMAIN event_listeners' = DOMAIN event_listeners \cup {e}
         /\ OthersUnchanged(e)]_vars

\* C10: eventNames() is exactly the set of event keys that hold a sequence,
\* string keys and symbol keys alike.
C10_EventNamesAreTheKeys == eventNames = DOMAIN event_listeners

\* C11: removeAllListeners() without an argument empties the registry:
\* afterwards eventNames() is empty and, for every event key, listenerCount
\* is 0 and emit finds nothing to iterate (it would return false).
C11_RemoveAllEmptiesRegistry ==
  [][removeAllListeners(Undefined) =>
       /\ DOMAIN event_listeners' = {}
       /\ eventNames' = {}
       /\ \A e \in Keys :
            /\ listenerCount(e)' = 0
            /\ Get(event_listeners', e) = "undefined"]_vars

\* C12: listeners(E) and rawListeners(E) return the same sequence: the
\* original handlers of E's entries in registration order (f for an entry
\* of once(E, f)), and the empty sequence when E holds no sequence.
C12_ListenersAreTheOriginals ==
  \A e \in Keys :
    /\ listeners(e) = rawListeners(e)
    /\ ~listeners(e).throws
    /\ IF e \in DOMAIN event_listeners
         THEN /\ Len(listeners(e).value) = Len(event_listeners[e])
              /\ \A i \in DOMAIN event_listeners[e] :
                   listeners(e).value[i] = event_listeners[e][i].l
         ELSE listeners(e).value = <<>>

\* C13: for every event key, listenerCount(E) is the length of the sequence
\* listeners(E) returns.
C13_CountIsLengthOfListeners ==
  \A e \in Keys :
    /\ ~listeners(e).throws
    /\ listenerCount(e) = Len(listeners(e).value)

\* a once(E, f) entry occurs once in s and no other entry of s is for f
LoneOnce(s, l) ==
  /\ Cardinality({i \in DOMAIN s : s[i].l = l}) = 1
  /\ \E i \in DOMAIN s : s[i] = Entry(l, TRUE)

\* C15: a once(E, f) registration is invoked at most once, re-entrant emits
\* included.  Stated where the registration is known: an outermost emit(E)
\* that began with a single entry for f, a once entry, saw no entry pushed,
\* and whose listeners made one call to the emitter.  When its loop fires
\* the wrapper of f, no emit nested in it has fired that wrapper already.
C15_OnceInvokedAtMostOnce ==
  [][(/\ emitCall
      /\ Len(stack) = 1
      /\ bodyOps = 1
      /\ Top.arr = Top.snap
      /\ Top.arr[Top.idx + 1].once
      /\ LoneOnce(Top.snap, Top.arr[Top.idx + 1].l)) =>
       Top.arr[Top.idx + 1].l \notin Top.inner]_vars

\* the entries of s from position 1 to n
Prefix(s, n) == SubSeq(s, 1, n)

\* what removals leave of an emit in progress: the array it iterates still
\* begins with every entry it began with, and its invocations so far are
\* of those entries, in order
KeepsItsEntries(fr) ==
  /\ Len(Iterated(fr)) >= Len(fr.snap)
  /\ Prefix(Iterated(fr), Len(fr.snap)) = fr.snap
  /\ fr.idx = Len(fr.called)
  /\ \A p \in 1..Len(fr.called) :
       p <= Len(fr.snap) => fr.called[p] = Invocation(fr.snap[p], fr.args)

\* C16: whatever a listener removes during an emit (by off, removeListener,
\* removeAllListeners with or without a key, or a once wrapper), the emit
\* still invokes every entry it began with; an emit that begins later
\* iterates the registry's sequence of that moment, without the removed
\* entries.
C16_RemovalDuringEmit ==
  [][/\ \A i \in DOMAIN stack' : KeepsItsEntries(stack'[i])
     /\ emitReturn => Top.idx >= Len(Top.snap)
     /\ Len(stack') > Len(stack) =>
          /\ stack'[Len(stack')].snap =
               event_listeners[stack'[Len(stack')].event]
          /\ Iterated(stack'[Len(stack')]) = stack'[Len(stack')].snap]_vars

\* the first listener f of an emit over <<f, g>> called off(E, g); g has
\* been entered all the same
C16_Witness ==
  /\ Len(stack) = 1
  /\ bodyOps = 1
  /\ ret = "-"
  /\ Top.pc = "body"
  /\ Top.idx = 2
  /\ Top.snap = <<Entry("f", FALSE), Entry("g", FALSE)>>
  /\ Top.called = <<Invocation(Entry("f", FALSE), Top.args),
                    Invocation(Entry("g", FALSE), Top.args)>>
  /\ Top.event \in DOMAIN event_listeners
  /\ event_listeners[Top.event] = <<Entry("f", FALSE)>>

\* C17: an emit that returns has invoked no more listeners than its
\* sequence held when it began.
C17_InvocationsBoundedByInitialLength ==
  [][emitReturn => Len(Top.called) <= Len(Top.snap)]_vars

\* C18 as claimed: a key whose sequence has become empty answers every
\* query as a key without a sequence does: no listeners, count 0, and not
\* among eventNames().
C18_EmptyIsLikeAbsent ==
  \A e \in DOMAIN event_listeners :
    event_listeners[e] = <<>> =>
      /\ listeners(e) = Value(<<>>)
      /\ rawListeners(e) = Value(<<>>)
      /\ listenerCount(e) = 0
      /\ e \notin eventNames

\* C18 as amended: a key whose sequence has become empty has no listeners
\* and count 0, but eventNames() still reports it when it is a string key.
C18_EmptyIsLikeAbsentButNamed ==
  \A e \in DOMAIN event_listeners :
    event_listeners[e] = <<>> =>
      /\ listeners(e) = Value(<<>>)
      /\ rawListeners(e) = Value(<<>>)
      /\ listenerCount(e) = 0
      /\ e \in StringKeys => e \in eventNames

\* every listener of 'login' was removed and its empty sequence is kept
C18_Witness ==
  /\ Len(stack) = 0
  /\ "login" \in DOMAIN event_listeners
  /\ event_listeners["login"] = <<>>
  /\ listenerCount("login") = 0
  /\ "login" \in eventNames

C20_NoKeyDependentError ==
  [][\A e \in StringKeys :
       /\ \A l \in Listeners :
            (on(e, l) \/ once(e, l)) =>
              /\ ret' = "this"
              /\ e \in DOMAIN event_listeners'
              /\ l \in HandlersOf(event_listeners'[e])
       /\ e \notin DOMAIN event_listeners =>
            /\ \A a \in Args : emit(e, a) => ret' = "false"
            /\ listenerCount(e) = 0
            /\ ~listeners(e).throws
            /\ listeners(e).value = <<>>]_vars

====
